---- MODULE Spec2Model ----
(***************************************************************************)
(* Model of the MEV bundle gateway (src/proxy.go, flags of                 *)
(* src/unnamed/part_003): the ingress handler handleRpc, the whitelist     *)
(* publisher of ListenAndServe, the epoch scheduler epochLoop with its     *)
(* dispatch goroutines, and the upstream client makeRpcCall.               *)
(*                                                                         *)
(* Addresses and whitelist keys are strings of one fixed shape in the      *)
(* program; they are modelled by small integers whose numeric order is the *)
(* lexicographic order of the strings.  A request object (a pointer to an  *)
(* RpcReq) is modelled by an integer identity; its Method field lives in   *)
(* reqMethod.                                                              *)
(***************************************************************************)
EXTENDS Integers, Sequences, FiniteSets, TLC

\* ------------------------------------------------------------------ bounds
NumHandlers == 2
MaxBundles == 3
MaxBundlesAuth == 1
MaxKeys == 2
MaxAddr == 2

\* ------------------------------------------------- configuration (flags)
\* The flags bundleChan, bundlesPerEpoch and maxBundleRetries of main, at
\* values small enough to enumerate (their defaults are 1000, 2 and 3).
bundleDispatchChanSize == 2
bundlesPerEpoch == 1
maxBundleRetries == 1

Handlers == 1..NumHandlers
Addrs == 1..MaxAddr
ReqIds == 1..MaxBundles
RpcIds == {7, 9}

\* ------------------------------------------------------------- whitelist
RECURSIVE Insert(_, _)
Insert(x, s) ==
    IF s = <<>> THEN <<x>>
    ELSE IF x <= Head(s) THEN <<x>> \o s
    ELSE <<Head(s)>> \o Insert(x, Tail(s))

RECURSIVE SortStrings(_)
SortStrings(keys) ==
    IF keys = <<>> THEN <<>> ELSE Insert(Head(keys), SortStrings(Tail(keys)))

\* sort.Search: the smallest index in [0, n) at which pred holds, else n;
\* indices are 0-based as in the program (element i is wl[i + 1]).
RECURSIVE Search(_, _, _, _)
Search(wl, addr, i, j) ==
    IF i < j
    THEN LET h == (i + j) \div 2
         IN IF ~(wl[h + 1] >= addr) THEN Search(wl, addr, h + 1, j)
                                    ELSE Search(wl, addr, i, h)
    ELSE i

SearchStrings(wl, addr) == Search(wl, addr, 0, Len(wl))

KeyLists == UNION {[1..n -> Addrs] : n \in 0..MaxKeys}

\* Variant: the comparison of whitelist[idx] with the address is left out.
VerifyWhitelistedNoCompare(wl, addr) ==
    IF SearchStrings(wl, addr) >= Len(wl) THEN "panic" ELSE "pass"

\* The outcome of lines 247-258 for a recovered address and a loaded
\* snapshot: the index expression whitelist[idx] faults when idx is the
\* length of the slice.
VerifyWhitelisted(wl, addr) ==
    LET idx == SearchStrings(wl, addr)
    IN IF idx >= Len(wl) THEN "panic"
       ELSE IF wl[idx + 1] # addr THEN "reject"
       ELSE "pass"

\* ------------------------------------------------------- bundleGasPrice
\* A JSON string is a sequence of one-character strings.
Digits == <<"0", "1", "2", "3", "4", "5", "6", "7", "8", "9">>
IsDigit(c) == \E d \in 1..10 : Digits[d] = c
DigitVal(c) == (CHOOSE d \in 1..10 : Digits[d] = c) - 1

RECURSIVE ScanDigits(_, _)
ScanDigits(s, acc) ==
    IF s = <<>> THEN acc
    ELSE ScanDigits(Tail(s), 10 * acc + DigitVal(Head(s)))

\* big.Int.SetString(s, 10): an optional sign, then at least one digit, and
\* nothing else; [ok, val].
SetString(s) ==
    LET signed == s # <<>> /\ Head(s) \in {"+", "-"}
        mant == IF signed THEN Tail(s) ELSE s
        ok == mant # <<>> /\ \A i \in 1..Len(mant) : IsDigit(mant[i])
        abs == IF ok THEN ScanDigits(mant, 0) ELSE 0
    IN [ok |-> ok, val |-> IF signed /\ Head(s) = "-" THEN 0 - abs ELSE abs]

\* ------------------------------------------------------------------ state
VARIABLES
    whitelist,        \* the snapshot p.Whitelist points to (sorted keys)
    queue,            \* the contents of the channel p.BundleDispatch
    lock,             \* holder of p.BundleDispatchLock: 0 free, h a handler, -1 the scheduler
    hs,               \* per ingress handler: its position, request and response
    nextReq,          \* identity of the next request object
    reqMethod,        \* the Method field of each request object
    epc,              \* position of epochLoop
    bundles,          \* epochLoop's local vector (after gathering: the remainder)
    selectedBundles,  \* epochLoop's selectedBundles
    inflight,         \* dispatch goroutines of sendBundlesToValidator not yet done
    drainedQ,         \* history: the channel contents the current epoch drained
    hist,             \* history per request object: epochs lost, dispatches, discarded,
                      \* how it was accepted, the method it was last posted with
    last,             \* history: the request the step just taken finished, if any
    pub,              \* the whitelist publisher: its position, keys and err, and
                      \* history: the keys as fetched of the snapshot it last stored
    rpc               \* history: the last call of makeRpcCall taken on its own

vars == <<whitelist, queue, lock, hs, nextReq, reqMethod, epc, bundles,
          selectedBundles, inflight, drainedQ, hist, last, pub, rpc>>

SchedLock == 0 - 1

\* Variant: the channel is made one slot larger than configured.
ChanCapPlusOne == bundleDispatchChanSize + 1

\* cap(p.BundleDispatch)
ChanCap == bundleDispatchChanSize

BundleDispatchItem(data, bgp, retry) ==
    [data |-> data, bundleGasPrice |-> bgp, retry |-> retry]

\* History of a request object: the epochs it lost, its dispatches, whether
\* it was discarded, its Method and its sender's membership when it was put
\* on the channel, the Method marshalled into its last POST.
NoHist == [losses |-> 0, sent |-> 0, discarded |-> FALSE, accepted |-> "",
           member |-> FALSE, wire |-> ""]

\* ------------------------------------------------------------- responses
NoResp == [status |-> 0, text |-> "", jsonrpc |-> "", result |-> "",
           errcode |-> 0, errmsg |-> "", id |-> 0]

\* w.WriteHeader(code) followed by an optional w.Write(text)
Plain(code, text) == [NoResp EXCEPT !.status = code, !.text = text]

\* w.Write(respBytes) of a marshalled RpcResp: the status defaults to 200
RpcResult(jsonrpc, result, id) ==
    [NoResp EXCEPT !.status = 200, !.jsonrpc = jsonrpc, !.result = result, !.id = id]

RpcError(code, msg, id) ==
    [NoResp EXCEPT !.status = 200, !.jsonrpc = "2.0", !.errcode = code,
                   !.errmsg = msg, !.id = id]

\* --------------------------------------------------------------- requests
\* What handleRpc finds before it has an address, in the order it looks.
PreOutcomes == {"route", "ctype", "decode", "sigshort", "sighex", "recover", "ok"}
Methods == {"eth_sendBundle", "eth_getBalance"}
GasPriceStrings == {<<"9">>, <<"1", "0">>, <<"-", "1">>, <<"x">>}
NoParams == [kind |-> "unread", str |-> <<>>]
ParamsInputs ==
    {[kind |-> k, str |-> <<>>] : k \in {"notobject", "nokey", "nonstring"}}
    \cup {[kind |-> "string", str |-> s] : s \in GasPriceStrings}

\* params whose bundleGasPrice is a string of digits
PricedParams == {[kind |-> "string", str |-> s] : s \in {<<"9">>, <<"1", "0">>}}

\* One request in a handler: what it has read of the request (fields it has
\* not read stay unread), and history: member (the address is in the
\* snapshot it loaded), locked (it has taken the lock), qAtLock and full (the
\* channel when it took the lock), qSame (the channel at its return is as it
\* was then), sends (its sends on the channel), panicked.
IdleHandler ==
    [pc |-> "idle", pre |-> "", addr |-> 0, member |-> FALSE, method |-> "",
     rid |-> 0, params |-> NoParams, req |-> 0, locked |-> FALSE,
     qAtLock |-> <<>>, full |-> FALSE, qSame |-> TRUE, sends |-> 0,
     panicked |-> FALSE, resp |-> NoResp]

\* The handler returns having written resp.
Return(h0, resp) == [h0 EXCEPT !.pc = "done", !.resp = resp, !.qAtLock = <<>>]

\* The handler faults: net/http recovers and aborts the connection, nothing
\* is written.
Panic(h0) == [h0 EXCEPT !.pc = "done", !.panicked = TRUE, !.qAtLock = <<>>]

IsMember(wl, addr) == \E i \in 1..Len(wl) : wl[i] = addr

\* Variant: any method is taken for eth_sendBundle.
IsSendBundleAny(method) == method # ""

IsSendBundle(method) == method = "eth_sendBundle"

\* ------------------------------------------------------------ handleRpc
\* Lines 193-238: everything that ends the request before an address is
\* recovered.  relaySigStr[2:] faults on a header shorter than two bytes.
PreReject(pre) ==
    LET h0 == [IdleHandler EXCEPT !.pre = pre]
    IN CASE pre = "route" -> Return(h0, Plain(404, ""))
         [] pre = "ctype" -> Return(h0, Plain(400, "Invalid content type"))
         [] pre = "decode" -> Return(h0, Plain(400, "Request decode error"))
         [] pre = "sigshort" -> Panic(h0)
         [] pre = "sighex" -> Return(h0, Plain(400, "Signature decode error"))
         [] pre = "recover" -> Return(h0, Plain(400, "Signature recovery error"))

\* Variant: the handler does not take the lock.
HandlerAcquireMissing(h) == UNCHANGED lock

\* p.BundleDispatchLock.Lock() of the handler
HandlerAcquire(h) == lock = 0 /\ lock' = h

\* json.Marshal(resp): a string result, an integer code and a decoded JSON id
\* always marshal.
MarshalOk(resp) == TRUE

\* A step that finishes no request.
NoFinish == last' = IdleHandler

\* The request of handler h is over: last is the finished request, the
\* handler is free for the next one.
Finish(h, h1) ==
    /\ last' = h1
    /\ hs' = [hs EXCEPT ![h] = IdleHandler]

\* Lines 193-260 and 296-307: one request arrives and is taken up to the
\* whitelist check; the snapshot is loaded once, atomically.  The request
\* is drawn from pres, addrs and rids; maxReq bounds the request objects.
HandleStart(h, pres, addrs, rids, maxReq) ==
    /\ UNCHANGED <<pub, rpc>>
    /\ hs[h].pc = "idle"
    /\ \E pre \in pres :
        IF pre # "ok"
        THEN /\ Finish(h, PreReject(pre))
             /\ UNCHANGED <<nextReq, reqMethod>>
        ELSE \E addr \in addrs :
            LET h0 == [IdleHandler EXCEPT !.pre = pre, !.addr = addr,
                                          !.member = IsMember(whitelist, addr)]
                v == VerifyWhitelisted(whitelist, addr)
            IN IF v = "panic"
               THEN /\ Finish(h, Panic(h0))
                    /\ UNCHANGED <<nextReq, reqMethod>>
               ELSE IF v = "reject"
               THEN /\ Finish(h, Return(h0, Plain(400, "")))
                    /\ UNCHANGED <<nextReq, reqMethod>>
               ELSE \E method \in Methods, rid \in rids :
                    LET h1 == [h0 EXCEPT !.method = method, !.rid = rid]
                    IN IF IsSendBundle(method)
                       THEN /\ nextReq <= maxReq
                            /\ hs' = [hs EXCEPT ![h] =
                                        [h1 EXCEPT !.pc = "lock", !.req = nextReq]]
                            /\ nextReq' = nextReq + 1
                            /\ reqMethod' = [reqMethod EXCEPT ![nextReq] = method]
                            /\ NoFinish
                       ELSE /\ hs' = [hs EXCEPT ![h] =
                                        [h1 EXCEPT !.pc = "write",
                                            !.resp = RpcError(0 - 32601, "Method not found", rid)]]
                            /\ UNCHANGED <<nextReq, reqMethod>>
                            /\ NoFinish
    /\ UNCHANGED <<whitelist, queue, lock, epc, bundles, selectedBundles,
                   inflight, drainedQ, hist>>

\* Line 262: the handler takes the lock (and defers its release).
HandlerLock(h) ==
    /\ UNCHANGED <<pub, rpc>>
    /\ hs[h].pc = "lock"
    /\ HandlerAcquire(h)
    /\ hs' = [hs EXCEPT ![h] = [@ EXCEPT !.pc = "crit", !.locked = TRUE,
                                         !.qAtLock = queue,
                                         !.full = (Len(queue) = bundleDispatchChanSize)]]
    /\ UNCHANGED <<whitelist, queue, nextReq, reqMethod, epc, bundles,
                   selectedBundles, inflight, drainedQ, hist>>
    /\ NoFinish

\* Variant: the exit leaves the lock taken.
DeferredUnlockSkipped == UNCHANGED lock

\* Line 263: the deferred p.BundleDispatchLock.Unlock()
DeferredUnlock == lock' = 0

\* A return or a fault between lines 265 and 295: the deferred Unlock runs.
CritExit(h, h1) ==
    /\ Finish(h, [h1 EXCEPT !.qSame = (queue = hs[h].qAtLock)])
    /\ DeferredUnlock
    /\ UNCHANGED <<queue, hist>>

\* Line 265: len(p.BundleDispatch) == cap(p.BundleDispatch)
AtCapacity(q) == Len(q) = ChanCap

\* Variant: a new item starts with one retry already counted.
NewItemRetryOne(req, bgp) == BundleDispatchItem(req, bgp, 1)

\* Line 284: the item the handler sends
NewItem(req, bgp) == BundleDispatchItem(req, bgp, 0)

\* Variant: the handler unlocks as soon as it has sent.
ReleaseAfterSend == lock' = 0

\* Line 263: the Unlock is deferred, so the lock stays with the handler
\* after the send of line 284.
HoldAfterSend == UNCHANGED lock

\* Lines 265-295: capacity check, bundleGasPrice extraction, enqueue.  The
\* params of the request are drawn from inputs.
HandlerCrit(h, inputs) ==
    /\ UNCHANGED <<pub, rpc>>
    /\ hs[h].pc = "crit"
    /\ IF AtCapacity(queue)
       THEN CritExit(h, Return(hs[h], Plain(400, "")))
       ELSE \E params \in inputs :
            LET h1 == [hs[h] EXCEPT !.params = params]
                bgp == SetString(params.str)
            IN IF params.kind \in {"notobject", "nokey"}
               THEN CritExit(h, Return(h1, Plain(400, "")))
               ELSE IF params.kind = "nonstring"
               THEN CritExit(h, Panic(h1))
               ELSE IF ~bgp.ok
               THEN CritExit(h, Return(h1, Plain(400, "")))
               ELSE /\ Len(queue) < ChanCap
                    /\ queue' = Append(queue, NewItem(h1.req, bgp.val))
                    /\ hist' = [hist EXCEPT ![h1.req].accepted = reqMethod[h1.req],
                                            ![h1.req].member = h1.member]
                    /\ hs' = [hs EXCEPT ![h] =
                                [h1 EXCEPT !.pc = "write", !.sends = @ + 1,
                                    !.resp = RpcResult("2.0", "queued for proxy dispatch", h1.rid)]]
                    /\ HoldAfterSend
                    /\ NoFinish
    /\ UNCHANGED <<whitelist, nextReq, reqMethod, epc, bundles, selectedBundles,
                   inflight, drainedQ>>

\* Lines 309-320: marshal and write the response, return; the deferred
\* Unlock of the eth_sendBundle branch runs at this return.
HandlerWrite(h) ==
    /\ UNCHANGED <<pub, rpc>>
    /\ hs[h].pc = "write"
    /\ LET h1 == [hs[h] EXCEPT !.qSame = (~hs[h].locked \/ queue = hs[h].qAtLock)]
       IN Finish(h, IF MarshalOk(h1.resp) THEN Return(h1, h1.resp)
                                          ELSE Return(h1, Plain(500, "")))
    /\ lock' = IF hs[h].locked THEN 0 ELSE lock
    /\ UNCHANGED <<whitelist, queue, nextReq, reqMethod, epc, bundles,
                   selectedBundles, inflight, drainedQ, hist>>

\* ----------------------------------------------------- whitelist publisher
\* What the subgraph does with the POST of line 156: the transport fails,
\* it answers with another content type, with a body that does not decode,
\* or with one of lists.
SubgraphReplies(lists) ==
    {[kind |-> k, keys |-> <<>>] : k \in {"transport", "ctype", "decode"}}
    \cup {[kind |-> "ok", keys |-> ks] : ks \in lists}

\* fetchWhitelist: nil and an error, or the keys in the order of the answer
\* and no error ("").
FetchWhitelist(reply) ==
    IF reply.kind = "ok" THEN [keys |-> reply.keys, err |-> ""]
                         ELSE [keys |-> <<>>, err |-> reply.kind]

\* Variant: the unsorted keys are stored.
PublishedUnsorted(wl, keys, err) == IF err # "" THEN wl ELSE keys

\* Variant: the round goes on to sort and store after a failed fetch (the
\* keys are nil then).
PublishedAfterError(wl, keys, err) == SortStrings(keys)

\* Lines 388-399: what p.Whitelist points to after the round: on an error
\* nothing is stored; else the keys, sorted while still private to the
\* round, are stored by one atomic store.
Published(wl, keys, err) == IF err # "" THEN wl ELSE SortStrings(keys)

\* The publisher at the top of its loop.
PubIdle(raw) == [pc |-> "fetch", keys |-> <<>>, err |-> "", raw |-> raw]

\* Lines 387-401: one round of the publisher taken as one step, its keys
\* being private until the store.
WhitelistRound(lists) ==
    /\ pub.pc = "fetch"
    /\ \E reply \in SubgraphReplies(lists) :
         LET res == FetchWhitelist(reply)
         IN /\ whitelist' = Published(whitelist, res.keys, res.err)
            /\ pub' = PubIdle(IF res.err = "" THEN res.keys ELSE pub.raw)
    /\ UNCHANGED <<queue, lock, hs, nextReq, reqMethod, epc, bundles,
                   selectedBundles, inflight, drainedQ, hist, rpc>>
    /\ NoFinish

\* The same round in the steps other goroutines can interleave with.
\* Line 387: fetchWhitelist returns.
PubFetch(lists) ==
    /\ pub.pc = "fetch"
    /\ \E reply \in SubgraphReplies(lists) :
         LET res == FetchWhitelist(reply)
         IN pub' = [pub EXCEPT !.pc = "fetched", !.keys = res.keys, !.err = res.err]
    /\ UNCHANGED <<whitelist, queue, lock, hs, nextReq, reqMethod, epc, bundles,
                   selectedBundles, inflight, drainedQ, hist, rpc>>
    /\ NoFinish

\* Lines 388-399: the error check, the sort and the store; the publisher
\* then waits for the ticker (line 390 or 401).
PubStore ==
    /\ pub.pc = "fetched"
    /\ whitelist' = Published(whitelist, pub.keys, pub.err)
    /\ pub' = [pub EXCEPT !.pc = "wait",
                          !.raw = IF pub.err = "" THEN pub.keys ELSE @]
    /\ UNCHANGED <<queue, lock, hs, nextReq, reqMethod, epc, bundles,
                   selectedBundles, inflight, drainedQ, hist, rpc>>
    /\ NoFinish

\* Lines 390-391 and 401: the ticker fires, the next round begins with new
\* keys and err.
PubTick ==
    /\ pub.pc = "wait"
    /\ pub' = PubIdle(pub.raw)
    /\ UNCHANGED <<whitelist, queue, lock, hs, nextReq, reqMethod, epc, bundles,
                   selectedBundles, inflight, drainedQ, hist, rpc>>
    /\ NoFinish

\* ------------------------------------------------------------- makeRpcCall
\* What the upstream does with the POST of line 94: the transport fails, or
\* it answers with some Content-Type and a body that decodes into an
\* RpcResp or does not.
ContentTypes == {"application/json", "application/json; charset=utf-8", "text/html"}
UpstreamReplies ==
    {[kind |-> "transport", ctype |-> "", decodes |-> FALSE, jsonrpc |-> "",
      result |-> "", errcode |-> 0, id |-> 0]}
    \cup {[kind |-> "reply", ctype |-> c, decodes |-> FALSE, jsonrpc |-> "",
           result |-> "", errcode |-> 0, id |-> 0] : c \in ContentTypes}
    \cup {[kind |-> "reply", ctype |-> c, decodes |-> TRUE, jsonrpc |-> v,
           result |-> r, errcode |-> e, id |-> i] :
             c \in ContentTypes, v \in {"2.0", "1.0", ""}, r \in {"", "0xhash"},
             e \in {0, 0 - 32000}, i \in RpcIds}

\* An RpcResp as makeRpcCall returns it.
RpcResp(jsonrpc, result, errcode, errmsg, id) ==
    [jsonrpc |-> jsonrpc, result |-> result, errcode |-> errcode,
     errmsg |-> errmsg, id |-> id]

\* Lines 97-106, 113-122, 129-138: the response makeRpcCall makes up.
InternalError(msg, id) == RpcResp("2.0", "", 0 - 32603, msg, id)

\* Variant: any version string passes.
VersionAny(jsonrpc) == TRUE

\* Line 128: resp.Jsonrpc != "2.0"
VersionOk(jsonrpc) == jsonrpc = "2.0"

\* makeRpcCall for a request of the given id and a reply of the upstream:
\* the response it returns and the POSTs it has made.
MakeRpcCall(id, up) ==
    [posts |-> 1,
     resp |-> IF up.kind = "transport"
              THEN InternalError("Upstream unreachable", id)
              ELSE IF up.ctype # "application/json"
              THEN InternalError("Upstream response error", id)
              ELSE IF ~up.decodes \/ ~VersionOk(up.jsonrpc)
              THEN InternalError("Upstream response error", id)
              ELSE RpcResp(up.jsonrpc, up.result, up.errcode, "", up.id)]

NoCall ==
    [made |-> FALSE, id |-> 0,
     up |-> [kind |-> "", ctype |-> "", decodes |-> FALSE, jsonrpc |-> "",
             result |-> "", errcode |-> 0, id |-> 0],
     resp |-> RpcResp("", "", 0, "", 0), posts |-> 0]

\* One call of makeRpcCall, its request and the upstream's reply drawn from
\* RpcIds and UpstreamReplies.
MakeRpcCallStep ==
    /\ \E id \in RpcIds, up \in UpstreamReplies :
         LET call == MakeRpcCall(id, up)
         IN rpc' = [made |-> TRUE, id |-> id, up |-> up, resp |-> call.resp,
                    posts |-> call.posts]
    /\ UNCHANGED <<whitelist, queue, lock, hs, nextReq, reqMethod, epc, bundles,
                   selectedBundles, inflight, drainedQ, hist, pub>>
    /\ NoFinish

\* --------------------------------------------------------------- epochLoop
\* Variant: Less answers true for the greater price.
LessGreater(a, b) == a.bundleGasPrice > b.bundleGasPrice

\* BundleDispatchVec.Less
Less(a, b) == a.bundleGasPrice < b.bundleGasPrice

\* sort.Reverse(bundles).Less
ReverseLess(a, b) == Less(b, a)

Arrangements(n) == {f \in [1..n -> 1..n] : \A i, j \in 1..n : f[i] = f[j] => i = j}

\* sort.Sort is not stable: any arrangement of the vector in which no
\* element is ReverseLess than an earlier one can be its result.
SortOutcomes(v) ==
    {w \in {[i \in 1..Len(v) |-> v[f[i]]] : f \in Arrangements(Len(v))} :
        \A i, j \in 1..Len(w) : i < j => ~ReverseLess(w[j], w[i])}

Min(a, b) == IF a < b THEN a ELSE b

\* Variant: selectedBundles is not made anew and keeps the last epoch's
\* requests.
NewSelectedStale(old) == old

\* Line 340: selectedBundles is made anew, empty, in every epoch
NewSelected(old) == <<>>

\* Variant: the gathered bundles are not cut off the vector.
GatherRestAll(v) == v

\* Lines 340-347: the loop moves the head of bundles to selectedBundles up
\* to BundlesPerEpoch times.
GatherCount(v) == Min(bundlesPerEpoch, Len(v))
GatherSelected(old, v) ==
    NewSelected(old) \o [i \in 1..GatherCount(v) |-> v[i].data]
GatherRest(v) == SubSeq(v, GatherCount(v) + 1, Len(v))

\* Variant: the retry count is carried over as it is.
NextRetrySame(retry) == retry

\* Line 355: b.retry + 1
NextRetry(retry) == retry + 1

\* Variant: the bundle is ditched one epoch later.
DitchedLate(b) == b.retry > maxBundleRetries

\* Line 351: the bundle is ditched when its retries are used up.
Ditched(b) == b.retry >= maxBundleRetries
Kept(b) == ~Ditched(b)

\* Lines 350-356: what the loop sends back to the channel, in order.
Reinserted(bs) ==
    LET kept == SelectSeq(bs, Kept)
    IN [i \in 1..Len(kept) |->
          BundleDispatchItem(kept[i].data, kept[i].bundleGasPrice, NextRetry(kept[i].retry))]

\* Variant: the scheduler does not take the lock.
EpochAcquireMissing == UNCHANGED lock

\* p.BundleDispatchLock.Lock() of the scheduler
EpochAcquire == lock = 0 /\ lock' = SchedLock

\* Line 327
EpochLock ==
    /\ UNCHANGED <<pub, rpc>>
    /\ epc = "idle"
    /\ EpochAcquire
    /\ epc' = "locked"
    /\ UNCHANGED <<whitelist, queue, hs, nextReq, reqMethod, bundles,
                   selectedBundles, inflight, drainedQ, hist>>
    /\ NoFinish

\* Variant: the drain stops one item short.
DrainCountShort(q) == IF Len(q) > 1 THEN Len(q) - 1 ELSE Len(q)

\* Line 330: lenBundleDispatch := len(p.BundleDispatch)
DrainCount(q) == Len(q)

\* Lines 331-334: the items received from the channel, and what stays in it.
Drained(q) == SubSeq(q, 1, DrainCount(q))
Undrained(q) == SubSeq(q, DrainCount(q) + 1, Len(q))

\* Lines 329-347: drain len(channel) items, sort, gather the top bundles.
EpochDrain ==
    /\ UNCHANGED <<pub, rpc>>
    /\ epc = "locked"
    /\ \E v \in SortOutcomes(Drained(queue)) :
         /\ selectedBundles' = GatherSelected(selectedBundles, v)
         /\ bundles' = GatherRest(v)
    /\ drainedQ' = Drained(queue)
    /\ queue' = Undrained(queue)
    /\ epc' = "gathered"
    /\ UNCHANGED <<whitelist, lock, hs, nextReq, reqMethod, inflight, hist>>
    /\ NoFinish

\* Lines 349-356: re-enqueue the remainder; a send blocks while the channel
\* is full.
EpochReinsert ==
    /\ UNCHANGED <<pub, rpc>>
    /\ epc = "gathered"
    /\ Len(queue) + Len(Reinserted(bundles)) <= ChanCap
    /\ queue' = queue \o Reinserted(bundles)
    /\ hist' = [r \in ReqIds |->
                  IF \E i \in 1..Len(bundles) : bundles[i].data = r
                  THEN LET b == bundles[CHOOSE i \in 1..Len(bundles) : bundles[i].data = r]
                       IN [hist[r] EXCEPT !.losses = @ + 1,
                                          !.discarded = @ \/ Ditched(b)]
                  ELSE hist[r]]
    /\ epc' = "reinserted"
    /\ UNCHANGED <<whitelist, lock, hs, nextReq, reqMethod, bundles,
                   selectedBundles, inflight, drainedQ>>
    /\ NoFinish

\* Variant: the scheduler keeps the lock while it dispatches.
EpochReleaseMissing == UNCHANGED lock

\* Line 359: p.BundleDispatchLock.Unlock()
EpochRelease == lock' = 0

\* Lines 359-361 and 370-377: release the lock, start one goroutine per
\* selected bundle.
EpochUnlock ==
    /\ UNCHANGED <<pub, rpc>>
    /\ epc = "reinserted"
    /\ EpochRelease
    /\ inflight' = 1..Len(selectedBundles)
    /\ epc' = "dispatch"
    /\ UNCHANGED <<whitelist, queue, hs, nextReq, reqMethod, bundles,
                   selectedBundles, drainedQ, hist>>
    /\ NoFinish

\* Variant: the Method is left as it came.
RewrittenNot(method) == method

\* Line 188: req.Method = "mev_sendBundle"
Rewritten(method) == "mev_sendBundle"

\* Lines 186-190 in the goroutine of lines 373-376: rewrite the method and
\* post the request upstream (makeRpcCall marshals the request as it is
\* then); the response is dropped.
DispatchTask(i) ==
    /\ UNCHANGED <<pub, rpc>>
    /\ epc = "dispatch"
    /\ reqMethod' = [reqMethod EXCEPT ![selectedBundles[i]] = Rewritten(@)]
    /\ hist' = [hist EXCEPT ![selectedBundles[i]].sent = @ + 1,
                            ![selectedBundles[i]].wire = reqMethod'[selectedBundles[i]]]
    /\ inflight' = inflight \ {i}
    /\ UNCHANGED <<whitelist, queue, lock, hs, nextReq, epc, bundles,
                   selectedBundles, drainedQ>>
    /\ NoFinish

\* Lines 378 and 364: all goroutines are done; sleep until the next epoch.
EpochSleep ==
    /\ UNCHANGED <<pub, rpc>>
    /\ epc = "dispatch"
    /\ inflight = {}
    /\ epc' = "idle"
    /\ bundles' = <<>>
    /\ drainedQ' = <<>>
    /\ UNCHANGED <<whitelist, queue, lock, hs, nextReq, reqMethod,
                   selectedBundles, inflight, hist>>
    /\ NoFinish

\* ------------------------------------------------------- the state machine
Init ==
    /\ whitelist = <<>>
    /\ queue = <<>>
    /\ lock = 0
    /\ hs = [h \in Handlers |-> IdleHandler]
    /\ nextReq = 1
    /\ reqMethod = [r \in ReqIds |-> ""]
    /\ epc = "idle"
    /\ bundles = <<>>
    /\ selectedBundles = <<>>
    /\ inflight = {}
    /\ drainedQ = <<>>
    /\ hist = [r \in ReqIds |-> NoHist]
    /\ last = IdleHandler
    /\ pub = PubIdle(<<>>)
    /\ rpc = NoCall

\* The scheduler's steps.
Epoch ==
    \/ EpochLock
    \/ EpochDrain
    \/ EpochReinsert
    \/ EpochUnlock
    \/ \E i \in inflight : DispatchTask(i)
    \/ EpochSleep

\* The gateway with every sender signing as address 1, the subgraph
\* answering with that one key and every bundleGasPrice a string of digits:
\* up to MaxBundles bundles.
Next ==
    \/ \E h \in Handlers : HandleStart(h, {"ok"}, {1}, {7}, MaxBundles)
    \/ \E h \in Handlers : HandlerLock(h)
    \/ \E h \in Handlers : HandlerCrit(h, PricedParams)
    \/ \E h \in Handlers : HandlerWrite(h)
    \/ WhitelistRound({<<1>>})
    \/ Epoch

Spec == Init /\ [][Next]_vars

\* The gateway with requests of every kind, senders of every address and
\* the subgraph answering with any key list, the requests served one at a
\* time: up to MaxBundlesAuth bundles.
NextAuth ==
    \/ \E h \in {1} : HandleStart(h, PreOutcomes, Addrs, RpcIds, MaxBundlesAuth)
    \/ \E h \in {1} : HandlerLock(h)
    \/ \E h \in {1} : HandlerCrit(h, ParamsInputs)
    \/ \E h \in {1} : HandlerWrite(h)
    \/ WhitelistRound(KeyLists)
    \/ Epoch

SpecAuth == Init /\ [][NextAuth]_vars

\* The publisher taken step by step next to one handler, senders of every
\* address and the subgraph answering with any key list or failing.
NextWl ==
    \/ \E h \in {1} : HandleStart(h, {"ok"}, Addrs, {7}, MaxBundlesAuth)
    \/ \E h \in {1} : HandlerLock(h)
    \/ \E h \in {1} : HandlerCrit(h, PricedParams)
    \/ \E h \in {1} : HandlerWrite(h)
    \/ PubFetch(KeyLists)
    \/ PubStore
    \/ PubTick

SpecWl == Init /\ [][NextWl]_vars

\* params with a decimal bundleGasPrice string or with one that is no string
LockInputs == PricedParams \cup {[kind |-> "nonstring", str |-> <<>>]}

\* The gateway as in Next, the requests served one at a time, with
\* submissions that fault under the lock as well.
NextLive ==
    \/ \E h \in {1} : HandleStart(h, {"ok"}, {1}, {7}, MaxBundles)
    \/ \E h \in {1} : HandlerLock(h)
    \/ \E h \in {1} : HandlerCrit(h, LockInputs)
    \/ \E h \in {1} : HandlerWrite(h)
    \/ WhitelistRound({<<1>>})
    \/ Epoch

\* A handler that holds the lock runs on to its return (the response fits
\* the connection's write buffer, so w.Write does not wait for the client);
\* sync.Mutex hands the lock to a goroutine that has waited for it, so
\* epochLoop gets it whenever it is released again and again; every
\* dispatch returns and the sleep ends.
Fairness ==
    /\ WF_vars(HandlerCrit(1, LockInputs))
    /\ WF_vars(HandlerWrite(1))
    /\ SF_vars(EpochLock)
    /\ WF_vars(EpochDrain)
    /\ WF_vars(EpochReinsert)
    /\ WF_vars(EpochUnlock)
    /\ WF_vars(\E i \in inflight : DispatchTask(i))
    /\ WF_vars(EpochSleep)

SpecLive == Init /\ [][NextLive]_vars /\ Fairness

\* makeRpcCall on its own, for every request id and reply of the upstream.
NextRpc == MakeRpcCallStep

SpecRpc == Init /\ [][NextRpc]_vars

\* ---------------------------------------------------------------- claims
Finished == last.pc = "done"
SelectedIds == {selectedBundles[i] : i \in 1..Len(selectedBundles)}
QueueIds == {queue[i].data : i \in 1..Len(queue)}
HoldsLock(h) == hs[h].pc \in {"crit", "write"} /\ hs[h].locked

\* C1 (auth gate): a request whose signature does not recover to an address
\* of the snapshot it loaded never gets past the whitelist check: it takes
\* no lock, sends nothing on the channel, and what it is answered is a 4xx
\* or, when the handler faults, nothing at all; every request that is past
\* the check was sent by an address of the snapshot it loaded.
AuthGate ==
    /\ Finished /\ ~last.member =>
         /\ last.sends = 0
         /\ ~last.locked
         /\ last.req = 0
         /\ IF last.panicked THEN last.resp = NoResp
                             ELSE last.resp.status \in 400..499
    /\ \A h \in Handlers : hs[h].pc # "idle" => hs[h].member

\* A sender outside a non-empty snapshot was answered 400 while a bundle of
\* a whitelisted sender is pending.
AuthGateWitness ==
    /\ Finished /\ last.pre = "ok" /\ ~last.member
    /\ last.resp.status = 400
    /\ whitelist # <<>>
    /\ queue # <<>>

\* C2 (whitelist miss): every request whose recovered address is not in the
\* snapshot it loaded is answered 400 with an empty body and sends nothing.
WhitelistMiss ==
    Finished /\ last.pre = "ok" /\ ~last.member =>
        /\ ~last.panicked
        /\ last.resp = [status |-> 400, text |-> "", jsonrpc |-> "", result |-> "",
                        errcode |-> 0, errmsg |-> "", id |-> 0]
        /\ last.sends = 0

PriceOf(r) == drainedQ[CHOOSE i \in 1..Len(drainedQ) : drainedQ[i].data = r].bundleGasPrice

\* C3 (priority): once an epoch has gathered, of two drained bundles the one
\* of strictly higher price is selected whenever the other is, and no bundle
\* left in the remainder has a strictly higher price than a selected one.
Priority ==
    epc \in {"gathered", "reinserted", "dispatch"} =>
        /\ \A i, j \in 1..Len(drainedQ) :
              /\ drainedQ[i].bundleGasPrice > drainedQ[j].bundleGasPrice
              /\ drainedQ[j].data \in SelectedIds
              => drainedQ[i].data \in SelectedIds
        /\ \A i \in 1..Len(bundles), r \in SelectedIds :
              bundles[i].bundleGasPrice <= PriceOf(r)

\* A bundle that arrived later at a higher price is selected ahead of an
\* earlier one, which stays in the remainder.
PriorityWitness ==
    /\ epc = "gathered"
    /\ \E i, j \in 1..Len(drainedQ) :
          /\ i < j
          /\ drainedQ[i].bundleGasPrice < drainedQ[j].bundleGasPrice
          /\ drainedQ[j].data \in SelectedIds
          /\ drainedQ[i].data \notin SelectedIds

\* C4 (epoch partition): when the scheduler is about to release the lock,
\* the drained items are split into min(bundlesPerEpoch, |V|) selected ones
\* and a remainder, and the channel holds exactly the remainder items of
\* retry < maxBundleRetries, in order, same request and price, retry + 1;
\* from the lock to its release no handler holds the lock, and the channel
\* is empty between the drain and the re-enqueue.
EpochPartition ==
    /\ epc \in {"locked", "gathered", "reinserted"} =>
          lock = SchedLock /\ \A h \in Handlers : ~HoldsLock(h)
    /\ epc = "gathered" => queue = <<>>
    /\ epc = "reinserted" =>
          /\ Len(selectedBundles) =
                IF bundlesPerEpoch < Len(drainedQ) THEN bundlesPerEpoch ELSE Len(drainedQ)
          /\ Len(selectedBundles) + Len(bundles) = Len(drainedQ)
          /\ SelectedIds \cup {bundles[i].data : i \in 1..Len(bundles)}
                = {drainedQ[i].data : i \in 1..Len(drainedQ)}
          /\ \A i \in 1..Len(bundles) : \E j \in 1..Len(drainedQ) : bundles[i] = drainedQ[j]
          /\ LET rem == SelectSeq(bundles, LAMBDA b : b.retry < maxBundleRetries)
             IN queue = [i \in 1..Len(rem) |->
                           [data |-> rem[i].data,
                            bundleGasPrice |-> rem[i].bundleGasPrice,
                            retry |-> rem[i].retry + 1]]

\* An epoch drained two bundles, selected one and re-enqueued the other,
\* while a handler waits for the lock.
EpochPartitionWitness ==
    /\ epc = "reinserted"
    /\ Len(drainedQ) = 2
    /\ Len(queue) = 1
    /\ \E h \in Handlers : hs[h].pc = "lock"

\* C5 (retry exhaustion): every item of the channel has retry <=
\* maxBundleRetries, equal to the number of epochs its bundle has lost; a
\* discarded bundle has lost exactly maxBundleRetries + 1 epochs, was never
\* dispatched and is not in the channel.
RetryExhaustion ==
    /\ \A i \in 1..Len(queue) :
          /\ queue[i].retry <= maxBundleRetries
          /\ queue[i].retry = hist[queue[i].data].losses
    /\ \A r \in ReqIds : hist[r].discarded =>
          /\ hist[r].losses = maxBundleRetries + 1
          /\ hist[r].sent = 0
          /\ r \notin QueueIds

\* A bundle has been discarded.
RetryExhaustionWitness == \E r \in ReqIds : hist[r].discarded

\* C6 (retry bound): no bundle is dispatched upstream more than
\* maxBundleRetries + 1 times.
RetryBound == \A r \in ReqIds : hist[r].sent <= maxBundleRetries + 1

\* A bundle was dispatched after it had lost an epoch.
RetryBoundWitness == \E r \in ReqIds : hist[r].sent >= 1 /\ hist[r].losses >= 1

\* C7 (capacity): the channel never holds more than bundleChan items.
Capacity == Len(queue) <= bundleDispatchChanSize

\* A handler holds the lock in front of a full channel.
CapacityWitness ==
    /\ Len(queue) = bundleDispatchChanSize
    /\ \E h \in Handlers : hs[h].pc = "crit"

\* C8 (queue full): a handler that took the lock with the channel at
\* bundleChan items answers 400 with an empty body, sends nothing and
\* leaves the channel as it was; a handler that has sent took the lock with
\* the channel below capacity, and at most one handler is between lock and
\* unlock.
QueueFull ==
    /\ Finished /\ last.full =>
          /\ ~last.panicked
          /\ last.resp.status = 400 /\ last.resp.text = ""
          /\ last.sends = 0
          /\ last.qSame
    /\ \A h \in Handlers : hs[h].sends >= 1 => ~hs[h].full
    /\ Finished /\ last.sends >= 1 => ~last.full
    /\ \A g, h \in Handlers : HoldsLock(g) /\ HoldsLock(h) => g = h

\* A submission was answered 400 because another handler's bundle had taken
\* the last slot.
QueueFullWitness ==
    /\ Finished /\ last.full /\ last.resp.status = 400
    /\ Len(queue) = bundleDispatchChanSize
    /\ queue[Len(queue)].retry = 0

DecimalValue(str) ==
    CASE str = <<"9">> -> 9
      [] str = <<"1", "0">> -> 10
      [] str = <<"-", "1">> -> 0 - 1

\* C9 (happy-path enqueue): a handler that is about to answer an
\* eth_sendBundle has appended exactly one item {its request, the value of
\* the bundleGasPrice string, retry 0} at the tail of the channel as it was
\* when it took the lock; a whitelisted eth_sendBundle with a decimal
\* bundleGasPrice string and the channel below capacity is answered 200 with
\* result "queued for proxy dispatch" and its id; and a request answered with
\* that result has sent exactly one item.
HappyPath ==
    /\ \A h \in Handlers : hs[h].pc = "write" /\ hs[h].method = "eth_sendBundle" =>
          /\ hs[h].params.kind = "string"
          /\ queue = Append(hs[h].qAtLock,
                            [data |-> hs[h].req,
                             bundleGasPrice |-> DecimalValue(hs[h].params.str),
                             retry |-> 0])
          /\ hs[h].sends = 1
    /\ /\ Finished /\ last.member /\ last.method = "eth_sendBundle" /\ ~last.full
       /\ last.params.kind = "string" /\ last.params.str \in {<<"9">>, <<"1", "0">>}
       => /\ last.resp = [status |-> 200, text |-> "", jsonrpc |-> "2.0",
                          result |-> "queued for proxy dispatch",
                          errcode |-> 0, errmsg |-> "", id |-> last.rid]
          /\ last.sends = 1
    /\ Finished /\ last.resp.result = "queued for proxy dispatch" =>
          last.sends = 1 /\ last.req # 0 /\ last.resp.status = 200

\* A handler has appended a bundle of price "10" behind a pending one and
\* is about to answer.
HappyPathWitness ==
    \E h \in Handlers :
        /\ hs[h].pc = "write"
        /\ hs[h].sends = 1
        /\ hs[h].params.str = <<"1", "0">>
        /\ Len(hs[h].qAtLock) = 1
        /\ queue[2].bundleGasPrice = 10

\* C10 (method not found): a whitelisted request of a method other than
\* eth_sendBundle is answered 200 with error -32601 "Method not found" and
\* its id, never takes the lock and sends nothing on the channel.
MethodNotFound ==
    /\ Finished /\ last.member /\ last.method \notin {"", "eth_sendBundle"} =>
          /\ last.resp = [status |-> 200, text |-> "", jsonrpc |-> "2.0",
                          result |-> "", errcode |-> 0 - 32601,
                          errmsg |-> "Method not found", id |-> last.rid]
          /\ ~last.locked
          /\ last.sends = 0
          /\ last.qSame
    /\ \A h \in Handlers : hs[h].method \notin {"", "eth_sendBundle"} =>
          /\ hs[h].pc = "write"
          /\ ~hs[h].locked
          /\ hs[h].sends = 0

\* An eth_getBalance of a whitelisted sender was answered -32601 with id 9
\* while a bundle is pending.
MethodNotFoundWitness ==
    /\ Finished /\ last.method = "eth_getBalance"
    /\ last.resp.errcode = 0 - 32601 /\ last.resp.id = 9
    /\ queue # <<>>

IsSortedStrings(wl) == \A i, j \in 1..Len(wl) : i < j => wl[i] <= wl[j]
Count(seq, x) == Cardinality({i \in 1..Len(seq) : seq[i] = x})

\* C11 (snapshot atomicity): in every state, and so at every load of a
\* handler however it falls between the publisher's steps, the published
\* snapshot is a list in ascending order that holds exactly the keys, each
\* as often, of the last fetch that was stored (none before the first
\* store: the initial empty list); keys fetched but not yet stored are not
\* seen.
SnapshotAtomicity ==
    /\ IsSortedStrings(whitelist)
    /\ Len(whitelist) = Len(pub.raw)
    /\ \A a \in Addrs : Count(whitelist, a) = Count(pub.raw, a)

\* A handler is past the whitelist check for address 2 while the snapshot
\* is the sorted list of a fetch that came as <<2, 1>> and the publisher
\* holds the keys of a later fetch it has not stored.
SnapshotAtomicityWitness ==
    /\ whitelist = <<1, 2>>
    /\ pub.raw = <<2, 1>>
    /\ pub.pc = "fetched" /\ pub.err = "" /\ pub.keys = <<2>>
    /\ hs[1].pc = "write" /\ hs[1].addr = 2

\* C12 (fetch failure keeps the snapshot): no step taken while the
\* publisher holds an error of fetchWhitelist changes the published
\* snapshot, so it stays through any number of failed rounds.
FetchFailureKeeps ==
    [][pub.pc = "fetched" /\ pub.err # "" => whitelist' = whitelist]_vars

\* The publisher waits for the ticker after a fetch that failed to decode;
\* the snapshot of an earlier fetch is still published and a handler has
\* passed the check against it.
FetchFailureKeepsWitness ==
    /\ pub.pc = "wait" /\ pub.err = "decode"
    /\ whitelist = <<1, 2>>
    /\ hs[1].pc = "lock" /\ hs[1].addr = 2

\* C13 (gas-price parse failure): a whitelisted eth_sendBundle that took the
\* lock with the channel below capacity and whose params are no JSON
\* object, lack bundleGasPrice, hold a bundleGasPrice that is no JSON
\* string, or hold a string that is no decimal integer, is answered 400,
\* has sent nothing and has released the lock.
GasPriceFailure ==
    /\ Finished /\ last.member /\ last.method = "eth_sendBundle"
    /\ last.locked /\ ~last.full
    /\ \/ last.params.kind \in {"notobject", "nokey", "nonstring"}
       \/ last.params.kind = "string" /\ last.params.str = <<"x">>
    => /\ ~last.panicked
       /\ last.resp.status = 400
       /\ last.sends = 0
       /\ lock = 0

\* C14 (upstream client totality): every call of makeRpcCall has made one
\* POST and returned a response of jsonrpc "2.0"; when the transport failed
\* it is error -32603 "Upstream unreachable" with the request's id, and when
\* the reply has another content type, does not decode or decodes to a
\* version other than "2.0" it is error -32603 "Upstream response error"
\* with the request's id.
RpcTotality ==
    rpc.made =>
        /\ rpc.posts = 1
        /\ rpc.resp.jsonrpc = "2.0"
        /\ rpc.up.kind = "transport" =>
              rpc.resp = [jsonrpc |-> "2.0", result |-> "", errcode |-> 0 - 32603,
                          errmsg |-> "Upstream unreachable", id |-> rpc.id]
        /\ /\ rpc.up.kind = "reply"
           /\ \/ rpc.up.ctype # "application/json"
              \/ ~rpc.up.decodes
              \/ rpc.up.jsonrpc # "2.0"
           => rpc.resp = [jsonrpc |-> "2.0", result |-> "", errcode |-> 0 - 32603,
                          errmsg |-> "Upstream response error", id |-> rpc.id]

\* The upstream answered a request of id 9 with a JSON response of version
\* "1.0" and id 7; makeRpcCall returned "Upstream response error" with id 9.
RpcTotalityWitness ==
    /\ rpc.made /\ rpc.id = 9
    /\ rpc.up.ctype = "application/json" /\ rpc.up.decodes
    /\ rpc.up.jsonrpc = "1.0" /\ rpc.up.id = 7
    /\ rpc.resp.errmsg = "Upstream response error" /\ rpc.resp.id = 9

\* C15 (method rewrite): every request that was posted upstream was posted
\* with method mev_sendBundle and had been put on the channel as an
\* eth_sendBundle of a whitelisted sender; the requests of the items in the
\* channel and in the scheduler's remainder have method eth_sendBundle.
MethodRewrite ==
    /\ \A r \in ReqIds : hist[r].sent >= 1 =>
          /\ hist[r].wire = "mev_sendBundle"
          /\ hist[r].accepted = "eth_sendBundle"
          /\ hist[r].member
    /\ \A i \in 1..Len(queue) : reqMethod[queue[i].data] = "eth_sendBundle"
    /\ \A i \in 1..Len(bundles) : reqMethod[bundles[i].data] = "eth_sendBundle"

\* A bundle has been posted upstream while a loser of an earlier epoch is
\* back in the channel.
MethodRewriteWitness ==
    /\ \E r \in ReqIds : hist[r].sent >= 1 /\ reqMethod[r] = "mev_sendBundle"
    /\ \E i \in 1..Len(queue) : queue[i].retry >= 1

\* C16 (scheduler lock scope): the scheduler holds the lock exactly from its
\* Lock to the end of the re-enqueue; while it dispatches, waits for the
\* dispatches or sleeps it does not hold it.
SchedulerLockScope ==
    /\ lock = SchedLock <=> epc \in {"locked", "gathered", "reinserted"}
    /\ inflight # {} => epc = "dispatch" /\ lock # SchedLock

\* A handler has taken the lock and put a bundle on the channel while a
\* dispatch of the epoch is in flight.
SchedulerLockScopeWitness ==
    /\ epc = "dispatch" /\ inflight # {}
    /\ \E h \in Handlers :
          /\ lock = h
          /\ hs[h].pc = "write" /\ hs[h].sends = 1
          /\ queue # <<>> /\ queue[Len(queue)].data = hs[h].req

\* C17 (handler lock scope): a handler that is about to marshal and write
\* its response does not hold the lock.
HandlerLockScope == \A h \in Handlers : hs[h].pc = "write" => lock # h

\* C18 (first-epoch consideration): nothing is put on the channel between
\* the scheduler's Lock and its drain; the drain empties the channel and
\* every item that was in it is then among the selected or in the remainder;
\* the re-enqueue puts every item of the remainder back on the channel or
\* discards it.
FirstEpoch ==
    [][/\ epc = "locked" /\ epc' = "locked" => queue' = queue
       /\ epc = "locked" /\ epc' = "gathered" =>
             /\ queue' = <<>>
             /\ \A i \in 1..Len(queue) :
                   \/ \E k \in 1..Len(selectedBundles') :
                          selectedBundles'[k] = queue[i].data
                   \/ \E k \in 1..Len(bundles') : bundles'[k] = queue[i]
       /\ epc = "gathered" /\ epc' = "reinserted" =>
             \A i \in 1..Len(bundles) :
                 \/ \E k \in 1..Len(queue') : queue'[k].data = bundles[i].data
                 \/ hist'[bundles[i].data].discarded]_vars

\* An epoch has drained two bundles that were on the channel when it took
\* the lock, selected one and discarded the other, which had lost before.
FirstEpochWitness ==
    /\ epc = "reinserted"
    /\ Len(drainedQ) = 2
    /\ Len(selectedBundles) = 1
    /\ \E i \in 1..Len(drainedQ) :
          hist[drainedQ[i].data].discarded /\ drainedQ[i].retry = maxBundleRetries

\* C19 (tie-break by arrival): once an epoch has gathered, no drained
\* bundle is selected while a bundle of the same price that was ahead of it
\* in the channel is not.
TieBreak ==
    epc \in {"gathered", "reinserted", "dispatch"} =>
        \A i, j \in 1..Len(drainedQ) :
            /\ i < j
            /\ drainedQ[i].bundleGasPrice = drainedQ[j].bundleGasPrice
            /\ drainedQ[j].data \in SelectedIds
            => drainedQ[i].data \in SelectedIds

\* C20 (unsigned gas price): no item of the channel has a negative
\* bundleGasPrice, and a submission whose bundleGasPrice string is a
\* negative decimal integer is answered 400 and sends nothing.
UnsignedGasPrice ==
    /\ \A i \in 1..Len(queue) : queue[i].bundleGasPrice >= 0
    /\ Finished /\ last.params.kind = "string" /\ last.params.str = <<"-", "1">> =>
          last.resp.status = 400 /\ last.sends = 0

InDispatch == IF epc = "dispatch" THEN {selectedBundles[i] : i \in inflight} ELSE {}
SchedulerHeld ==
    IF epc \in {"gathered", "reinserted"}
    THEN SelectedIds \cup {bundles[i].data : i \in 1..Len(bundles)}
    ELSE {}

\* C21 (single ownership): a request a handler still works on is held by no
\* other handler, is not in the scheduler's vectors and not in a dispatch,
\* and if it is already on the channel that handler holds the lock, so the
\* scheduler cannot drain it before the handler is done; no request is on
\* the channel and in a dispatch at once, and no two dispatch tasks of an
\* epoch have the same request.
SingleOwnership ==
    /\ \A h \in Handlers : hs[h].req # 0 =>
          /\ \A g \in Handlers : g # h => hs[g].req # hs[h].req
          /\ hs[h].req \notin InDispatch \cup SchedulerHeld
          /\ hs[h].req \in QueueIds => lock = h
    /\ QueueIds \cap InDispatch = {}
    /\ epc = "dispatch" =>
          \A i, j \in inflight : selectedBundles[i] = selectedBundles[j] => i = j

\* A handler is writing the response for the bundle it has just put behind
\* a re-enqueued loser, while the winner of the epoch is being dispatched.
SingleOwnershipWitness ==
    /\ epc = "dispatch" /\ inflight # {}
    /\ Len(queue) = 2 /\ queue[1].retry = 1
    /\ \E h \in Handlers : hs[h].pc = "write" /\ hs[h].req = queue[2].data

Outcomes(r) ==
    Cardinality({o \in {"selected", "requeued", "discarded"} :
                    \/ o = "selected" /\ r \in SelectedIds
                    \/ o = "requeued" /\ r \in QueueIds
                    \/ o = "discarded" /\ hist[r].discarded})

\* C23 (at-most-once dispatch and conservation): no bundle is posted
\* upstream more than once; a posted bundle is neither on the channel nor
\* discarded; no request is on the channel twice; when the re-enqueue of an
\* epoch is done every drained item is in exactly one of selected,
\* re-enqueued, discarded; and no bundle selected by an epoch is on the
\* channel while that epoch dispatches.
AtMostOnce ==
    /\ \A r \in ReqIds :
          /\ hist[r].sent <= 1
          /\ hist[r].sent >= 1 => r \notin QueueIds /\ ~hist[r].discarded
    /\ \A i, j \in 1..Len(queue) : queue[i].data = queue[j].data => i = j
    /\ epc = "reinserted" =>
          \A i \in 1..Len(drainedQ) : Outcomes(drainedQ[i].data) = 1
    /\ epc \in {"reinserted", "dispatch"} => SelectedIds \cap QueueIds = {}

\* After an earlier bundle was posted, an epoch has drained two bundles,
\* selected one and re-enqueued the other.
AtMostOnceWitness ==
    /\ epc = "reinserted"
    /\ Len(drainedQ) = 2 /\ Len(selectedBundles) = 1
    /\ Len(queue) = 1 /\ queue[1].retry = 1
    /\ \E r \in ReqIds : hist[r].sent = 1

\* C24 (no blocking send under the lock): a handler between its Lock and
\* its return holds the lock, and one that has sent took the lock with the
\* channel strictly below capacity; when the scheduler is about to
\* re-enqueue it holds the lock and the whole remainder fits the channel;
\* whoever holds the lock can take its next step; and a handler that had
\* taken the lock has released it when it is over, a fault included.
NoBlockingSend ==
    /\ \A h \in Handlers :
          /\ hs[h].pc \in {"crit", "write"} /\ hs[h].locked => lock = h
          /\ hs[h].sends >= 1 => Len(hs[h].qAtLock) < bundleDispatchChanSize
          /\ lock = h => ENABLED (HandlerCrit(h, LockInputs) \/ HandlerWrite(h))
    /\ epc = "gathered" =>
          /\ lock = SchedLock
          /\ Len(queue) + Len(Reinserted(bundles)) <= bundleDispatchChanSize
    /\ lock = SchedLock => ENABLED (EpochDrain \/ EpochReinsert \/ EpochUnlock)
    /\ Finished /\ last.locked => lock = 0

\* A handler faulted on a bundleGasPrice that is no string while a
\* re-enqueued loser is on the channel, and the lock is free.
NoBlockingSendWitness ==
    /\ Finished /\ last.locked /\ last.panicked
    /\ lock = 0
    /\ \E i \in 1..Len(queue) : queue[i].retry >= 1

====
